---- MODULE Spec2Model ----
(***************************************************************************)
(* The FAISS-backed vector store of rag-engine (src/src/faiss_db.py): the  *)
(* process-wide index/metadata pair, its two persisted files, and the      *)
(* operations add_chunk, search_similar, get_info and clear_all.           *)
(* Spec takes each call as one step; CrashSpec and ThreadSpec follow the   *)
(* calls line by line, with one thread that may be stopped at any line and *)
(* with two threads whose lines interleave.                                *)
(*                                                                         *)
(* Numbers.  Embeddings are integer vectors whose Euclidean norm is an     *)
(* integer, so L2 normalisation is exact: a normalised vector is kept as   *)
(* numerators over one common denominator, a score as a reduced fraction.  *)
(* Python's None is the empty tuple and a present value x is <<x>>; a dict *)
(* is a set of <<key, value>> pairs with each key at most once.            *)
(***************************************************************************)
EXTENDS Integers, Sequences, FiniteSets, TLC

VARIABLES
    _index,         \* faiss_db._index: None, or <<the sequence of stored vectors>>
    _metadata,      \* faiss_db._metadata: the list of chunk records
    index_file,     \* faiss_db/index.faiss: None (absent), or <<the vectors written>>
    metadata_file,  \* faiss_db/metadata.pkl: None (absent), or <<the records written>>
    tieOrder,       \* how the FAISS build orders equal scores: "asc" or "desc" by ordinal
    ret,            \* the call that has just returned (its name, arguments, exception
                    \* and return value), or Idle once the caller has taken the result
    calls,          \* per thread, the call it is inside: the line it is at and its locals
    torn            \* the files a stopped write left unreadable: "index", "metadata"

vars == <<_index, _metadata, index_file, metadata_file, tieOrder, ret, calls, torn>>

\* ---------------------------------------------------------------- bounds

\* Most chunks the index holds (add_chunk is not offered beyond it).
MaxChunks == 2

\* Stands for VECTOR_DIM = 768 (faiss_db.py line 18), scaled down.
VECTOR_DIM == 2

\* ---------------------------------------------------------------- Python values

None == <<>>

Some(x) == <<x>>

\* dict.get(k): the value under k, or None.
DictGet(d, k) ==
    IF \E p \in d : p[1] = k THEN (CHOOSE p \in d : p[1] = k)[2] ELSE None

\* ---------------------------------------------------------------- arithmetic

Abs(n) == IF n < 0 THEN -n ELSE n

RECURSIVE Gcd(_, _)
Gcd(a, b) == IF b = 0 THEN a ELSE Gcd(b, a % b)

RECURSIVE GcdSeq(_, _)
GcdSeq(s, g) == IF s = <<>> THEN g ELSE GcdSeq(Tail(s), Gcd(Abs(Head(s)), g))

\* A fraction num/den in lowest terms, den > 0.
Rat(n, d) ==
    LET g == Gcd(Abs(n), Abs(d))
        s == IF d < 0 THEN -1 ELSE 1
    IN  [num |-> (s * n) \div g, den |-> (s * d) \div g]

RatLess(a, b) == a.num * b.den < b.num * a.den

\* The largest r with r * r <= n.
ISqrt(n) == CHOOSE r \in 0..n : r * r <= n /\ (r + 1) * (r + 1) > n

RECURSIVE SumProd(_, _, _)
SumProd(a, b, i) == IF i = 0 THEN 0 ELSE a[i] * b[i] + SumProd(a, b, i - 1)

Dot(a, b) == SumProd(a, b, Len(a))

\* ---------------------------------------------------------------- FAISS

\* normalize_L2 left out: the vector is used as it came.
normalize_L2_skipped(v) == [num |-> v, den |-> 1]

\* faiss.normalize_L2 on one row: divide by the norm; a zero vector is left as it is.
normalize_L2(v) ==
    LET nr == ISqrt(Dot(v, v))
    IN  IF nr = 0
        THEN [num |-> v, den |-> 1]
        ELSE LET g == GcdSeq(v, nr)
             IN  [num |-> [i \in 1..Len(v) |-> v[i] \div g], den |-> nr \div g]

\* The inner product of two normalised vectors.
InnerProduct(a, b) == Rat(Dot(a.num, b.num), a.den * b.den)

\* IndexFlatIP.search orders by descending inner product; the order of equal
\* scores is the build's, fixed by tie.
Precedes(vectors, q, tie, i, j) ==
    LET si == InnerProduct(q, vectors[i + 1])
        sj == InnerProduct(q, vectors[j + 1])
    IN  \/ RatLess(sj, si)
        \/ si = sj /\ (IF tie = "asc" THEN i < j ELSE i > j)

RECURSIVE Ranked(_, _, _, _)
Ranked(vectors, q, tie, S) ==
    IF S = {} THEN <<>>
    ELSE LET best == CHOOSE i \in S : \A j \in S \ {i} : Precedes(vectors, q, tie, i, j)
         IN  <<best>> \o Ranked(vectors, q, tie, S \ {best})

\* index.search(query_array, k): the k best (dist, idx) pairs, best first.
IndexSearch(vectors, q, k, tie) ==
    LET order == Ranked(vectors, q, tie, 0..(Len(vectors) - 1))
    IN  [r \in 1..k |-> [dist |-> InnerProduct(q, vectors[order[r] + 1]), idx |-> order[r]]]

\* ---------------------------------------------------------------- loading

\* get_index that never reads the file.
get_index_always_fresh == <<>>

\* get_index(): the persisted index if the file exists, else a fresh IndexFlatIP.
get_index == IF index_file # None THEN index_file[1] ELSE <<>>

\* load_metadata(): the persisted list if the file exists, else [].
load_metadata == IF metadata_file # None THEN metadata_file[1] ELSE <<>>

\* get_index_singleton(): load on first use, then the globals as they are.
get_index_singleton ==
    IF _index = None
    THEN [index |-> get_index, meta |-> load_metadata]
    ELSE [index |-> _index[1], meta |-> _metadata]

\* ---------------------------------------------------------------- add_chunk

\* next_chunk_id reading index.ntotal after index.add instead of before it.
next_chunk_id_after_add(index) == Len(index) + 1

\* chunk_id = index.ntotal, read before index.add.
next_chunk_id(index) == Len(index)

\* The record add_chunk appends to the metadata list ("metadata or {}").
chunk_record(chunk_id, content, document_id, chunk_index, metadata) ==
    [id |-> chunk_id,
     content |-> content,
     document_id |-> document_id,
     chunk_index |-> chunk_index,
     metadata |-> IF metadata = None \/ metadata[1] = {} THEN {} ELSE metadata[1]]

\* add_chunk without the two writes at its end.
add_chunk_unsaved(index, meta, content, embedding, document_id, chunk_index, metadata) ==
    IF Len(embedding) # VECTOR_DIM
    THEN [index |-> index, meta |-> meta, saved |-> FALSE,
          raised |-> Some("AssertionError"), value |-> None]
    ELSE [index |-> Append(index, normalize_L2(embedding)),
          meta |-> Append(meta,
              chunk_record(Len(index), content, document_id, chunk_index, metadata)),
          saved |-> FALSE, raised |-> None, value |-> Some(Len(index))]

\* add_chunk with meta.append moved before index.add: the record is there
\* when index.add refuses the row.
add_chunk_record_first(index, meta, content, embedding, document_id, chunk_index, metadata) ==
    IF Len(embedding) # VECTOR_DIM
    THEN [index |-> index,
          meta |-> Append(meta,
              chunk_record(Len(index), content, document_id, chunk_index, metadata)),
          saved |-> FALSE, raised |-> Some("AssertionError"), value |-> None]
    ELSE [index |-> Append(index, normalize_L2(embedding)),
          meta |-> Append(meta,
              chunk_record(Len(index), content, document_id, chunk_index, metadata)),
          saved |-> TRUE, raised |-> None, value |-> Some(Len(index))]

\* add_chunk that puts the new vector and record in front of the others.
add_chunk_in_front(index, meta, content, embedding, document_id, chunk_index, metadata) ==
    IF Len(embedding) # VECTOR_DIM
    THEN [index |-> index, meta |-> meta, saved |-> FALSE,
          raised |-> Some("AssertionError"), value |-> None]
    ELSE [index |-> <<normalize_L2(embedding)>> \o index,
          meta |-> <<chunk_record(Len(index), content, document_id, chunk_index,
                                  metadata)>> \o meta,
          saved |-> TRUE, raised |-> None, value |-> Some(Len(index))]

\* add_chunk on the loaded pair: index.add refuses a row of another width
\* before anything is changed; otherwise vector and record are appended and
\* both files rewritten. The outcome: the pair, whether the files were
\* written, the exception and the returned id.
add_chunk(index, meta, content, embedding, document_id, chunk_index, metadata) ==
    LET emb_array == normalize_L2(embedding)
        chunk_id == next_chunk_id(index)
    IN  IF Len(embedding) # VECTOR_DIM
        THEN [index |-> index, meta |-> meta, saved |-> FALSE,
              raised |-> Some("AssertionError"), value |-> None]
        ELSE [index |-> Append(index, emb_array),
              meta |-> Append(meta,
                  chunk_record(chunk_id, content, document_id, chunk_index, metadata)),
              saved |-> TRUE, raised |-> None, value |-> Some(chunk_id)]

\* ---------------------------------------------------------------- RAGService

\* RAGService.generate_embedding: one call of the embedding provider, which
\* answers with a vector (outcome = <<vector>>) or fails (outcome = None).
generate_embedding(text, task_type, outcome) ==
    [call |-> [text |-> text, task_type |-> task_type],
     raised |-> IF outcome = None THEN Some("EmbeddingProviderError") ELSE None,
     embedding |-> outcome]

\* add_document_chunk that goes on with an all-zero embedding when the provider fails.
add_document_chunk_zero_on_error(index, meta, content, document_id, chunk_index, metadata, outcome) ==
    LET e == generate_embedding(content, "RETRIEVAL_DOCUMENT", outcome)
        v == IF e.raised # None THEN [i \in 1..VECTOR_DIM |-> 0] ELSE e.embedding[1]
        r == add_chunk(index, meta, content, v, document_id, chunk_index, metadata)
    IN  [embed_calls |-> <<e.call>>, added |-> TRUE, index |-> r.index, meta |-> r.meta,
         saved |-> r.saved, raised |-> e.raised, value |-> None]

\* RAGService.add_document_chunk: embed the content as a document, then
\* add_chunk; a failure of the provider leaves before add_chunk is called.
add_document_chunk(index, meta, content, document_id, chunk_index, metadata, outcome) ==
    LET e == generate_embedding(content, "RETRIEVAL_DOCUMENT", outcome)
        r == add_chunk(index, meta, content, e.embedding[1], document_id,
                       chunk_index, metadata)
    IN  IF e.raised # None
        THEN [embed_calls |-> <<e.call>>, added |-> FALSE, index |-> index, meta |-> meta,
              saved |-> FALSE, raised |-> e.raised, value |-> None]
        ELSE [embed_calls |-> <<e.call>>, added |-> TRUE, index |-> r.index,
              meta |-> r.meta, saved |-> r.saved, raised |-> r.raised, value |-> r.value]

\* ---------------------------------------------------------------- clear_all

\* clear_all without "global _metadata": the list of records is kept.
clear_all_keeps_metadata ==
    [index |-> <<>>, meta |-> _metadata]

\* clear_all without "global _index": the index is kept.
clear_all_keeps_index ==
    [index |-> get_index_singleton.index, meta |-> <<>>]

\* clear_all: fresh globals, both files removed and rewritten from them.
clear_all ==
    [index |-> <<>>, meta |-> <<>>]

\* ---------------------------------------------------------------- get_info

get_info(index) ==
    [vector_db |-> "FAISS", total_chunks |-> Len(index), vector_dimension |-> VECTOR_DIM]

\* ---------------------------------------------------------------- search_similar

\* similarity_of reporting, for "l2", the distance 2 - 2 * dist itself.
similarity_of_l2_distance(dist, search_type) ==
    IF search_type = "l2" THEN Rat(2 * dist.den - 2 * dist.num, dist.den) ELSE dist

\* Lines 135-144: the reported similarity of a raw score.
similarity_of(dist, search_type) ==
    IF search_type = "cosine" THEN dist
    ELSE IF search_type = "l2"
         THEN Rat(dist.den, 3 * dist.den - 2 * dist.num)   \* 1 / (1 + (2 - 2 * dist))
         ELSE dist

\* passes_threshold with "<=" for "<": a hit exactly at the threshold is dropped.
passes_threshold_strict(similarity, search_type, threshold) ==
    IF threshold # None
    THEN IF search_type = "l2" THEN TRUE ELSE RatLess(threshold[1], similarity)
    ELSE TRUE

\* passes_threshold with the comparison turned round: hits above the threshold are dropped.
passes_threshold_reversed(similarity, search_type, threshold) ==
    IF threshold # None
    THEN IF search_type = "l2" THEN TRUE ELSE ~RatLess(threshold[1], similarity)
    ELSE TRUE

\* passes_threshold without the exemption of "l2".
passes_threshold_l2_too(similarity, search_type, threshold) ==
    IF threshold # None
    THEN ~RatLess(similarity, threshold[1])
    ELSE TRUE

\* Lines 146-154: FALSE when the threshold check drops the hit.
passes_threshold(similarity, search_type, threshold) ==
    IF threshold # None
    THEN IF search_type = "l2" THEN TRUE ELSE ~RatLess(similarity, threshold[1])
    ELSE TRUE

\* passes_filter testing "is not None" and any() for truthiness and all().
passes_filter_any(chunk_meta, metadata_filter) ==
    IF metadata_filter # None
    THEN \E p \in metadata_filter[1] : DictGet(chunk_meta.metadata, p[1]) = p[2]
    ELSE TRUE

\* Lines 156-160: FALSE when the metadata filter drops the hit. An empty
\* filter is falsy, like None.
passes_filter(chunk_meta, metadata_filter) ==
    IF metadata_filter # None /\ metadata_filter[1] # {}
    THEN \A p \in metadata_filter[1] : DictGet(chunk_meta.metadata, p[1]) = p[2]
    ELSE TRUE

\* json.dumps of the chunk's metadata dict: the serialised text, not the dict.
json_dumps(d) == [json |-> d]

\* Lines 162-169.
result_chunk(chunk_meta, similarity) ==
    [id |-> chunk_meta.id,
     content |-> chunk_meta.content,
     metadata |-> json_dumps(chunk_meta.metadata),
     document_id |-> chunk_meta.document_id,
     chunk_index |-> chunk_meta.chunk_index,
     similarity |-> similarity]

\* append_chunk as chunks.insert(0, ...).
append_chunk_in_front(chunks, c) == <<c>> \o chunks

\* chunks.append(...): the new result goes to the end of the list.
append_chunk(chunks, c) == Append(chunks, c)

\* Lines 128-171: the loop over the hits from position i on. meta[int(idx)]
\* raises IndexError when the list has no such position.
RECURSIVE format_results(_, _, _, _, _, _, _)
format_results(hits, i, meta, search_type, threshold, metadata_filter, chunks) ==
    IF i > Len(hits) THEN [raised |-> None, value |-> chunks]
    ELSE IF hits[i].idx >= Len(meta) THEN [raised |-> Some("IndexError"), value |-> <<>>]
    ELSE LET chunk_meta == meta[hits[i].idx + 1]
             similarity == similarity_of(hits[i].dist, search_type)
             keep == /\ passes_threshold(similarity, search_type, threshold)
                     /\ passes_filter(chunk_meta, metadata_filter)
         IN  format_results(hits, i + 1, meta, search_type, threshold, metadata_filter,
                 IF keep THEN append_chunk(chunks, result_chunk(chunk_meta, similarity))
                 ELSE chunks)

Min(a, b) == IF a < b THEN a ELSE b

\* search_similar without the early return for an empty index: index.search
\* is called with k = 0, which it refuses.
search_similar_no_empty_check(index, meta, query_embedding, search_type, top_k, threshold, metadata_filter, tie) ==
    IF Len(query_embedding) # VECTOR_DIM \/ Min(top_k, Len(index)) = 0
    THEN [raised |-> Some("AssertionError"), value |-> <<>>]
    ELSE format_results(
             IndexSearch(index, normalize_L2(query_embedding), Min(top_k, Len(index)), tie),
             1, meta, search_type, threshold, metadata_filter, <<>>)

\* search_similar that filters every stored chunk and cuts to top_k afterwards.
search_similar_filter_then_cut(index, meta, query_embedding, search_type, top_k, threshold, metadata_filter, tie) ==
    IF Len(index) = 0 THEN [raised |-> None, value |-> <<>>]
    ELSE IF Len(query_embedding) # VECTOR_DIM
         THEN [raised |-> Some("AssertionError"), value |-> <<>>]
         ELSE LET hits == IndexSearch(index, normalize_L2(query_embedding), Len(index), tie)
                  r == format_results(hits, 1, meta, search_type, threshold,
                                      metadata_filter, <<>>)
              IN  [raised |-> r.raised,
                   value |-> SubSeq(r.value, 1, Min(top_k, Len(r.value)))]

\* search_similar on the loaded pair. index.search refuses a query of another
\* width (only reached when the index is not empty).
search_similar(index, meta, query_embedding, search_type, top_k, threshold, metadata_filter, tie) ==
    IF Len(index) = 0 THEN [raised |-> None, value |-> <<>>]
    ELSE IF Len(query_embedding) # VECTOR_DIM
         THEN [raised |-> Some("AssertionError"), value |-> <<>>]
         ELSE LET query_array == normalize_L2(query_embedding)
                  k == Min(top_k, Len(index))
                  hits == IndexSearch(index, query_array, k, tie)
              IN  format_results(hits, 1, meta, search_type, threshold,
                                 metadata_filter, <<>>)

\* ---------------------------------------------------------------- inputs

\* v padded with zeros to the index's width.
Pad(v) == [i \in 1..VECTOR_DIM |-> IF i <= Len(v) THEN v[i] ELSE 0]

\* <<6, 8>> normalises to the same vector as <<3, 4>>; <<0, 0>> cannot be normalised.
Embeddings == {Pad(<<3, 4>>), Pad(<<6, 8>>), Pad(<<4, 3>>), Pad(<<0, 0>>)}

\* A vector of another width than the index.
WrongWidth == <<5>>

TopicNLP == {<<"topic", Some("NLP")>>}

Metadatas ==
    {None,
     Some(TopicNLP),
     Some({<<"topic", Some("databases")>>}),
     Some({<<"topic", Some("NLP")>>, <<"test", Some("True")>>})}

\* The calls of add_chunk: every embedding, and every metadata.
AddInputs ==
    [content : {"alpha"}, embedding : Embeddings \cup {WrongWidth},
     document_id : {Some("doc1")}, chunk_index : {Some(0)}, metadata : {Some(TopicNLP)}]
    \cup
    [content : {"beta"}, embedding : {Pad(<<3, 4>>)},
     document_id : {None}, chunk_index : {None}, metadata : Metadatas]

\* The calls of RAGService.add_document_chunk.
ServiceInputs ==
    [content : {"alpha"}, document_id : {Some("doc1")}, chunk_index : {Some(0)},
     metadata : {Some(TopicNLP)}]

\* What the embedding provider answers: a vector, or nothing (it fails).
ProviderOutcomes == {None, Some(Pad(<<3, 4>>)), Some(Pad(<<4, 3>>))}

SearchTypes == {"cosine", "l2", "inner_product", "COSINE"}

Thresholds == {None, Some(Rat(24, 25)), Some(Rat(1, 1))}

Filters ==
    {None,
     Some({}),
     Some(TopicNLP),
     Some({<<"topic", None>>}),
     Some({<<"topic", Some("NLP")>>, <<"test", Some("True")>>})}

Queries == {Pad(<<3, 4>>), Pad(<<4, 3>>), Pad(<<0, 0>>)}

\* overfetch_factor is what the caller asks for; QueryRequest has no such
\* field and search_similar no such parameter, so no code reads it.
SearchArgs(queries, search_types, thresholds, filters) ==
    [query_embedding : queries, search_type : search_types, top_k : 1..MaxChunks,
     threshold : thresholds, metadata_filter : filters, overfetch_factor : {1}]

\* The calls of search_similar: every query under every search type, with no
\* threshold and no filter; one query under every threshold and filter; and a
\* query of the wrong width; and one query asked with an overfetch factor.
SearchInputs ==
    SearchArgs(Queries, SearchTypes, {None}, {None})
    \cup SearchArgs({Pad(<<3, 4>>)}, SearchTypes \ {"COSINE"}, Thresholds, Filters)
    \cup SearchArgs({WrongWidth}, {"cosine"}, {None}, {None})
    \cup {[a EXCEPT !.overfetch_factor = 2] :
              a \in SearchArgs({Pad(<<3, 4>>)}, {"cosine"}, {None}, {None})}

\* ---------------------------------------------------------------- the state machine

\* No call is running and no result is waiting for the caller.
Idle == [op |-> "idle", args |-> None, raised |-> None, value |-> None]

\* The threads that call into the module.
Threads == {1, 2}

\* A local variable "index" or "meta": the object the global names now
\* (shared), or an object the global named when the local was bound and that
\* clear_all has replaced since (own: its content).
NoRef == [shared |-> FALSE, own |-> <<>>]

Shared == [shared |-> TRUE, own |-> <<>>]

\* A thread that is inside no call.
IdleCall ==
    [op |-> "idle", pc |-> "idle", args |-> None, index |-> NoRef, meta |-> NoRef,
     chunk_id |-> 0, hits |-> <<>>, raised |-> None, value |-> None]

Init ==
    /\ _index = None
    /\ _metadata = <<>>
    /\ index_file = None
    /\ metadata_file = None
    /\ tieOrder \in {"asc", "desc"}
    /\ ret = Idle
    /\ calls = [t \in Threads |-> IdleCall]
    /\ torn = {}

\* add_chunk(content, embedding, document_id, chunk_index, metadata)
AddChunk ==
    /\ ret = Idle
    /\ \E a \in AddInputs :
        LET s == get_index_singleton
            r == add_chunk(s.index, s.meta, a.content, a.embedding, a.document_id,
                           a.chunk_index, a.metadata)
        IN  /\ Len(s.index) < MaxChunks
            /\ _index' = Some(r.index)
            /\ _metadata' = r.meta
            /\ index_file' = IF r.saved THEN Some(r.index) ELSE index_file
            /\ metadata_file' = IF r.saved THEN Some(r.meta) ELSE metadata_file
            /\ ret' = [op |-> "add_chunk", args |-> Some(a),
                       raised |-> r.raised, value |-> r.value]
            /\ UNCHANGED <<tieOrder, calls, torn>>

\* rag_service.add_document_chunk(content, document_id, chunk_index, metadata)
AddDocumentChunk ==
    /\ ret = Idle
    /\ \E a \in ServiceInputs, outcome \in ProviderOutcomes :
        LET s == get_index_singleton
            r == add_document_chunk(s.index, s.meta, a.content, a.document_id,
                                    a.chunk_index, a.metadata, outcome)
        IN  /\ Len(s.index) < MaxChunks
            /\ _index' = IF r.added THEN Some(r.index) ELSE _index
            /\ _metadata' = IF r.added THEN r.meta ELSE _metadata
            /\ index_file' = IF r.saved THEN Some(r.index) ELSE index_file
            /\ metadata_file' = IF r.saved THEN Some(r.meta) ELSE metadata_file
            /\ ret' = [op |-> "add_document_chunk", args |-> Some(a),
                       raised |-> r.raised, value |-> r.value,
                       embed_calls |-> r.embed_calls]
            /\ UNCHANGED <<tieOrder, calls, torn>>

\* search_similar(query_embedding, search_type, top_k, threshold, metadata_filter)
SearchSimilar ==
    /\ ret = Idle
    /\ \E a \in SearchInputs :
        LET s == get_index_singleton
            r == search_similar(s.index, s.meta, a.query_embedding, a.search_type,
                                a.top_k, a.threshold, a.metadata_filter, tieOrder)
        IN  /\ _index' = Some(s.index)
            /\ _metadata' = s.meta
            /\ ret' = [op |-> "search_similar", args |-> Some(a),
                       raised |-> r.raised, value |-> Some(r.value)]
            /\ UNCHANGED <<index_file, metadata_file, tieOrder, calls, torn>>

\* get_info()
GetInfo ==
    LET s == get_index_singleton
    IN  /\ ret = Idle
        /\ _index' = Some(s.index)
        /\ _metadata' = s.meta
        /\ ret' = [op |-> "get_info", args |-> None, raised |-> None,
                   value |-> Some(get_info(s.index))]
        /\ UNCHANGED <<index_file, metadata_file, tieOrder, calls, torn>>

\* clear_all()
ClearAll ==
    LET r == clear_all
    IN  /\ ret = Idle
        /\ _index' = Some(r.index)
        /\ _metadata' = r.meta
        /\ index_file' = Some(r.index)
        /\ metadata_file' = Some(r.meta)
        /\ ret' = [op |-> "clear_all", args |-> None, raised |-> None, value |-> None]
        /\ UNCHANGED <<tieOrder, calls, torn>>

\* Calls are made one after the other: the caller takes the result of the
\* call that returned, and the next call may start.
Return ==
    /\ ret # Idle
    /\ ret' = Idle
    /\ UNCHANGED <<_index, _metadata, index_file, metadata_file, tieOrder, calls, torn>>

\* The process ends and a new one imports the module: the globals are None
\* and [] again (lines 46-47), the files stay.
Restart ==
    /\ ret = Idle
    /\ _index # None
    /\ _index' = None
    /\ _metadata' = <<>>
    /\ UNCHANGED <<index_file, metadata_file, tieOrder, ret, calls, torn>>

Next ==
    AddChunk \/ AddDocumentChunk \/ SearchSimilar \/ GetInfo \/ ClearAll \/ Return \/ Restart

Spec == Init /\ [][Next]_vars

\* ---------------------------------------------------------------- line by line

\* The calls whose steps are followed one line at a time.
StepAddInputs ==
    {a \in AddInputs : a.embedding = Pad(<<3, 4>>) /\ a.metadata = Some(TopicNLP)}

StepSearchInputs == SearchArgs({Pad(<<3, 4>>)}, {"cosine"}, {None}, {None})

\* The object a local variable of call c names.
IndexOf(c) == IF c.index.shared THEN _index[1] ELSE c.index.own

MetaOf(c) == IF c.meta.shared THEN _metadata ELSE c.meta.own

\* get_index_singleton() with files that may be unreadable: read_index raises
\* before _index is assigned; pickle.load raises after _index was assigned and
\* before _metadata is.
get_index_singleton_or_raise ==
    IF _index # None
    THEN [index |-> _index, meta |-> _metadata, raised |-> None]
    ELSE IF index_file # None /\ "index" \in torn
    THEN [index |-> None, meta |-> _metadata, raised |-> Some("RuntimeError")]
    ELSE IF metadata_file # None /\ "metadata" \in torn
    THEN [index |-> Some(get_index), meta |-> _metadata, raised |-> Some("EOFError")]
    ELSE [index |-> Some(get_index), meta |-> load_metadata, raised |-> None]

\* Thread t enters op with arguments a: "index, meta = get_index_singleton()",
\* and goes on at line pc, or leaves with the exception of the load.
Call(t, op, a, pc) ==
    LET s == get_index_singleton_or_raise
    IN  /\ calls[t].pc = "idle"
        /\ _index' = s.index
        /\ _metadata' = s.meta
        /\ calls' = [calls EXCEPT ![t] =
               IF s.raised # None
               THEN [IdleCall EXCEPT !.op = op, !.pc = "done", !.args = a,
                                     !.raised = s.raised]
               ELSE [IdleCall EXCEPT !.op = op, !.pc = pc, !.args = a,
                                     !.index = Shared, !.meta = Shared]]
        /\ UNCHANGED <<index_file, metadata_file, tieOrder, ret, torn>>

\* The adds under way that have not appended their vector yet.
PendingAdds ==
    {u \in Threads : calls[u].op = "add_chunk" /\ calls[u].pc \in {"read_ntotal", "index_add"}}

\* add_chunk, lines 65-71.
AddCall(t) ==
    LET s == get_index_singleton_or_raise
    IN  /\ Len(IF s.index = None THEN <<>> ELSE s.index[1]) + Cardinality(PendingAdds)
               < MaxChunks
        /\ Len(s.meta) + Cardinality(PendingAdds) < MaxChunks
        /\ \E a \in StepAddInputs : Call(t, "add_chunk", Some(a), "read_ntotal")

\* Line 74: chunk_id = index.ntotal
AddReadNtotal(t) ==
    /\ calls[t].op = "add_chunk" /\ calls[t].pc = "read_ntotal"
    /\ calls' = [calls EXCEPT ![t].chunk_id = next_chunk_id(IndexOf(calls[t])),
                              ![t].pc = "index_add"]
    /\ UNCHANGED <<_index, _metadata, index_file, metadata_file, tieOrder, ret, torn>>

\* Line 75: index.add(emb_array)
AddIndexAdd(t) ==
    LET c == calls[t]
        index == Append(IndexOf(c), normalize_L2(c.args[1].embedding))
    IN  /\ c.op = "add_chunk" /\ c.pc = "index_add"
        /\ _index' = IF c.index.shared THEN Some(index) ELSE _index
        /\ calls' = [calls EXCEPT ![t].pc = "meta_append",
                                  ![t].index.own = IF c.index.shared THEN <<>> ELSE index]
        /\ UNCHANGED <<_metadata, index_file, metadata_file, tieOrder, ret, torn>>

\* Lines 78-84: meta.append({...})
AddMetaAppend(t) ==
    LET c == calls[t]
        a == c.args[1]
        meta == Append(MetaOf(c), chunk_record(c.chunk_id, a.content, a.document_id,
                                               a.chunk_index, a.metadata))
    IN  /\ c.op = "add_chunk" /\ c.pc = "meta_append"
        /\ _metadata' = IF c.meta.shared THEN meta ELSE _metadata
        /\ calls' = [calls EXCEPT ![t].pc = "write_index",
                                  ![t].meta.own = IF c.meta.shared THEN <<>> ELSE meta]
        /\ UNCHANGED <<_index, index_file, metadata_file, tieOrder, ret, torn>>

\* Line 87: faiss.write_index(index, str(INDEX_FILE))
AddWriteIndex(t) ==
    /\ calls[t].op = "add_chunk" /\ calls[t].pc = "write_index"
    /\ index_file' = Some(IndexOf(calls[t]))
    /\ torn' = torn \ {"index"}
    /\ calls' = [calls EXCEPT ![t].pc = "save_metadata"]
    /\ UNCHANGED <<_index, _metadata, metadata_file, tieOrder, ret>>

\* Lines 88-90: save_metadata(meta); return chunk_id
AddSaveMetadata(t) ==
    /\ calls[t].op = "add_chunk" /\ calls[t].pc = "save_metadata"
    /\ metadata_file' = Some(MetaOf(calls[t]))
    /\ torn' = torn \ {"metadata"}
    /\ calls' = [calls EXCEPT ![t].pc = "done", ![t].value = Some(calls[t].chunk_id)]
    /\ UNCHANGED <<_index, _metadata, index_file, tieOrder, ret>>

\* search_similar, line 112.
SearchCall(t) ==
    /\ calls[t].op = "idle"
    /\ \E a \in StepSearchInputs : Call(t, "search_similar", Some(a), "index_search")

\* Lines 114-125: the early return for an empty index, else index.search.
SearchIndex(t) ==
    LET c == calls[t]
        a == c.args[1]
        index == IndexOf(c)
    IN  /\ c.op = "search_similar" /\ c.pc = "index_search"
        /\ calls' = [calls EXCEPT ![t] =
               IF Len(index) = 0
               THEN [c EXCEPT !.pc = "done", !.value = Some(<<>>),
                              !.index = NoRef, !.meta = NoRef]
               ELSE [c EXCEPT !.pc = "format",
                              !.hits = IndexSearch(index, normalize_L2(a.query_embedding),
                                                   Min(a.top_k, Len(index)), tieOrder)]]
        /\ UNCHANGED <<_index, _metadata, index_file, metadata_file, tieOrder, ret, torn>>

\* Lines 128-171: the records of the hits, read from the list.
SearchFormat(t) ==
    LET c == calls[t]
        a == c.args[1]
        r == format_results(c.hits, 1, MetaOf(c), a.search_type, a.threshold,
                            a.metadata_filter, <<>>)
    IN  /\ c.op = "search_similar" /\ c.pc = "format"
        /\ calls' = [calls EXCEPT ![t] =
               [c EXCEPT !.pc = "done", !.raised = r.raised, !.value = Some(r.value),
                         !.hits = <<>>, !.index = NoRef, !.meta = NoRef]]
        /\ UNCHANGED <<_index, _metadata, index_file, metadata_file, tieOrder, ret, torn>>

\* get_info, lines 175-181.
InfoCall(t) ==
    LET s == get_index_singleton_or_raise
    IN  /\ calls[t].pc = "idle"
        /\ _index' = s.index
        /\ _metadata' = s.meta
        /\ calls' = [calls EXCEPT ![t] =
               [IdleCall EXCEPT !.op = "get_info", !.pc = "done", !.raised = s.raised,
                                !.value = IF s.raised # None THEN None
                                          ELSE Some(get_info(s.index[1]))]]
        /\ UNCHANGED <<index_file, metadata_file, tieOrder, ret, torn>>

\* clear_all, line 186: _index = faiss.IndexFlatIP(VECTOR_DIM). The locals
\* of the other threads keep the index the global named until now.
ClearNewIndex(t) ==
    /\ calls[t].pc = "idle"
    /\ _index' = Some(clear_all.index)
    /\ calls' = [u \in Threads |->
           IF u = t THEN [IdleCall EXCEPT !.op = "clear_all", !.pc = "new_metadata"]
           ELSE IF calls[u].index.shared
                THEN [calls[u] EXCEPT !.index = [shared |-> FALSE, own |-> _index[1]]]
                ELSE calls[u]]
    /\ UNCHANGED <<_metadata, index_file, metadata_file, tieOrder, ret, torn>>

\* Line 187: _metadata = []
ClearNewMetadata(t) ==
    /\ calls[t].op = "clear_all" /\ calls[t].pc = "new_metadata"
    /\ _metadata' = clear_all.meta
    /\ calls' = [u \in Threads |->
           IF u = t THEN [calls[t] EXCEPT !.pc = "unlink_index"]
           ELSE IF calls[u].meta.shared
                THEN [calls[u] EXCEPT !.meta = [shared |-> FALSE, own |-> _metadata]]
                ELSE calls[u]]
    /\ UNCHANGED <<_index, index_file, metadata_file, tieOrder, ret, torn>>

\* Lines 189-190: INDEX_FILE.unlink()
ClearUnlinkIndex(t) ==
    /\ calls[t].op = "clear_all" /\ calls[t].pc = "unlink_index"
    /\ index_file' = None
    /\ torn' = torn \ {"index"}
    /\ calls' = [calls EXCEPT ![t].pc = "unlink_metadata"]
    /\ UNCHANGED <<_index, _metadata, metadata_file, tieOrder, ret>>

\* Lines 191-192: METADATA_FILE.unlink()
ClearUnlinkMetadata(t) ==
    /\ calls[t].op = "clear_all" /\ calls[t].pc = "unlink_metadata"
    /\ metadata_file' = None
    /\ torn' = torn \ {"metadata"}
    /\ calls' = [calls EXCEPT ![t].pc = "write_index"]
    /\ UNCHANGED <<_index, _metadata, index_file, tieOrder, ret>>

\* Line 194: faiss.write_index(_index, str(INDEX_FILE))
ClearWriteIndex(t) ==
    /\ calls[t].op = "clear_all" /\ calls[t].pc = "write_index"
    /\ index_file' = _index
    /\ torn' = torn \ {"index"}
    /\ calls' = [calls EXCEPT ![t].pc = "save_metadata"]
    /\ UNCHANGED <<_index, _metadata, metadata_file, tieOrder, ret>>

\* Line 195: save_metadata(_metadata)
ClearSaveMetadata(t) ==
    /\ calls[t].op = "clear_all" /\ calls[t].pc = "save_metadata"
    /\ metadata_file' = Some(_metadata)
    /\ torn' = torn \ {"metadata"}
    /\ calls' = [calls EXCEPT ![t].pc = "done"]
    /\ UNCHANGED <<_index, _metadata, index_file, tieOrder, ret>>

\* The caller of thread t takes the result; the thread is free for a next call.
Take(t) ==
    /\ calls[t].pc = "done"
    /\ calls' = [calls EXCEPT ![t] = IdleCall]
    /\ UNCHANGED <<_index, _metadata, index_file, metadata_file, tieOrder, ret, torn>>

\* The files a thread is writing at this moment: open(..., 'wb') and
\* faiss.write_index truncate the file, then fill it.
BeingWritten ==
    {f \in {"index", "metadata"} : \E t \in Threads :
        calls[t].pc = (IF f = "index" THEN "write_index" ELSE "save_metadata")}

\* The process stops, between two lines or inside a write that leaves its
\* file cut short, and a new process imports the module (lines 46-47).
Crash ==
    /\ \E t \in Threads : calls[t].pc # "idle"
    /\ \E cut \in SUBSET BeingWritten :
        /\ torn' = torn \cup cut
        /\ index_file' = IF "index" \in cut THEN Some(<<>>) ELSE index_file
        /\ metadata_file' = IF "metadata" \in cut THEN Some(<<>>) ELSE metadata_file
    /\ _index' = None
    /\ _metadata' = <<>>
    /\ calls' = [t \in Threads |-> IdleCall]
    /\ UNCHANGED <<tieOrder, ret>>

\* One thread, which may be stopped at any line.
CrashNext ==
    \/ AddCall(1) \/ AddReadNtotal(1) \/ AddIndexAdd(1) \/ AddMetaAppend(1)
    \/ AddWriteIndex(1) \/ AddSaveMetadata(1)
    \/ SearchCall(1) \/ SearchIndex(1) \/ SearchFormat(1)
    \/ InfoCall(1)
    \/ ClearNewIndex(1) \/ ClearNewMetadata(1) \/ ClearUnlinkIndex(1)
    \/ ClearUnlinkMetadata(1) \/ ClearWriteIndex(1) \/ ClearSaveMetadata(1)
    \/ Take(1)
    \/ Crash

CrashSpec == Init /\ [][CrashNext]_vars

\* The process has loaded an empty store; no call is under way.
ThreadInit ==
    /\ index_file = None
    /\ metadata_file = None
    /\ _index = Some(get_index)
    /\ _metadata = load_metadata
    /\ tieOrder \in {"asc", "desc"}
    /\ ret = Idle
    /\ calls = [t \in Threads |-> IdleCall]
    /\ torn = {}

\* Line 87 fails (no space left, no permission): faiss.write_index raises
\* and add_chunk ends there; the file is as it was, or cut short.
AddWriteIndexFails(t) ==
    /\ calls[t].op = "add_chunk" /\ calls[t].pc = "write_index"
    /\ \E cut \in BOOLEAN :
        /\ index_file' = IF cut THEN Some(<<>>) ELSE index_file
        /\ torn' = IF cut THEN torn \cup {"index"} ELSE torn
    /\ calls' = [calls EXCEPT ![t].pc = "done", ![t].raised = Some("RuntimeError")]
    /\ UNCHANGED <<_index, _metadata, metadata_file, tieOrder, ret>>

\* Line 88 fails: open or pickle.dump raises in save_metadata.
AddSaveMetadataFails(t) ==
    /\ calls[t].op = "add_chunk" /\ calls[t].pc = "save_metadata"
    /\ \E cut \in BOOLEAN :
        /\ metadata_file' = IF cut THEN Some(<<>>) ELSE metadata_file
        /\ torn' = IF cut THEN torn \cup {"metadata"} ELSE torn
    /\ calls' = [calls EXCEPT ![t].pc = "done", ![t].raised = Some("OSError")]
    /\ UNCHANGED <<_index, _metadata, index_file, tieOrder, ret>>

\* One thread, whose add may fail at either write.
WriteFailNext ==
    \/ AddCall(1) \/ AddReadNtotal(1) \/ AddIndexAdd(1) \/ AddMetaAppend(1)
    \/ AddWriteIndex(1) \/ AddSaveMetadata(1)
    \/ AddWriteIndexFails(1) \/ AddSaveMetadataFails(1)
    \/ SearchCall(1) \/ SearchIndex(1) \/ SearchFormat(1)
    \/ InfoCall(1)
    \/ ClearNewIndex(1) \/ ClearNewMetadata(1) \/ ClearUnlinkIndex(1)
    \/ ClearUnlinkMetadata(1) \/ ClearWriteIndex(1) \/ ClearSaveMetadata(1)
    \/ Take(1)

WriteFailSpec == Init /\ [][WriteFailNext]_vars

\* Two threads, whose lines interleave in every way.
ThreadNext ==
    \E t \in Threads :
        \/ AddCall(t) \/ AddReadNtotal(t) \/ AddIndexAdd(t) \/ AddMetaAppend(t)
        \/ AddWriteIndex(t) \/ AddSaveMetadata(t)
        \/ SearchCall(t) \/ SearchIndex(t) \/ SearchFormat(t)
        \/ ClearNewIndex(t) \/ ClearNewMetadata(t) \/ ClearUnlinkIndex(t)
        \/ ClearUnlinkMetadata(t) \/ ClearWriteIndex(t) \/ ClearSaveMetadata(t)
        \/ Take(t)

ThreadSpec == ThreadInit /\ [][ThreadNext]_vars

\* ---------------------------------------------------------------- reranking stage

\* Three candidates of a first pass, with coarse scores A > B > C.
CandidateA == result_chunk(chunk_record(0, "A", Some("doc1"), Some(0), Some(TopicNLP)), Rat(9, 10))

CandidateB == result_chunk(chunk_record(1, "B", Some("doc1"), Some(1), None), Rat(4, 5))

CandidateC == result_chunk(chunk_record(2, "C", None, None, None), Rat(7, 10))

\* The candidate lists: one to three of the candidates, none twice, any order.
CandidateLists ==
    {s \in UNION {[1..n -> {CandidateA, CandidateB, CandidateC}] : n \in 1..3} :
        \A i, j \in DOMAIN s : s[i] = s[j] => i = j}

\* What the embedding provider answers for each text: fresh scores against
\* "q" in the order C > A > B; in the order A > B > C; all equal; and a
\* provider that fails on "B".
Providers ==
    {[q |-> Some(Pad(<<3, 4>>)), A |-> Some(Pad(<<4, 3>>)), B |-> Some(Pad(<<0, 5>>)),
      C |-> Some(Pad(<<3, 4>>))],
     [q |-> Some(Pad(<<3, 4>>)), A |-> Some(Pad(<<3, 4>>)), B |-> Some(Pad(<<4, 3>>)),
      C |-> Some(Pad(<<0, 5>>))],
     [q |-> Some(Pad(<<3, 4>>)), A |-> Some(Pad(<<6, 8>>)), B |-> Some(Pad(<<3, 4>>)),
      C |-> Some(Pad(<<6, 8>>))],
     [q |-> Some(Pad(<<3, 4>>)), A |-> Some(Pad(<<4, 3>>)), B |-> None,
      C |-> Some(Pad(<<3, 4>>))]}

\* The calls of rerank.
RerankInputs ==
    [candidates : CandidateLists, query_text : {"q"}, top_k : 1..(MaxChunks + 1),
     provider : Providers]

\* The orders in which n things can be put.
Orders(n) == {p \in [1..n -> 1..n] : \A i, j \in 1..n : p[i] = p[j] => i = j}

\* The provider calls of a rerank: the query in query mode, then each
\* candidate's content in document mode.
rerank_embeddings(candidates, query_text, provider) ==
    <<generate_embedding(query_text, "RETRIEVAL_QUERY", provider[query_text])>>
    \o [i \in 1..Len(candidates) |->
           generate_embedding(candidates[i].content, "RETRIEVAL_DOCUMENT",
                              provider[candidates[i].content])]

\* The candidates, each with its fresh score for similarity.
rescored(candidates, embeddings) ==
    [i \in 1..Len(candidates) |->
        [candidates[i] EXCEPT !.similarity =
            InnerProduct(normalize_L2(embeddings[1].embedding[1]),
                         normalize_L2(embeddings[i + 1].embedding[1]))]]

\* order puts the scored candidates in non-increasing order of similarity.
sorts_descending(scored, order) ==
    \A i \in 1..(Len(scored) - 1) :
        ~RatLess(scored[order[i]].similarity, scored[order[i + 1]].similarity)

\* rerank that sorts by the scores the candidates came with.
rerank_by_coarse_score(candidates, query_text, top_k, provider, order) ==
    LET embeddings == rerank_embeddings(candidates, query_text, provider)
        scored == rescored(candidates, embeddings)
    IN  IF Len(candidates) <= 1
        THEN [raised |-> None, value |-> candidates, embed_calls |-> <<>>, sorted |-> TRUE]
        ELSE IF \E i \in DOMAIN embeddings : embeddings[i].raised # None
        THEN [raised |-> Some("EmbeddingProviderError"), value |-> <<>>,
              embed_calls |-> <<>>, sorted |-> TRUE]
        ELSE [raised |-> None,
              value |-> [r \in 1..Min(top_k, Len(scored)) |-> scored[order[r]]],
              embed_calls |-> [i \in DOMAIN embeddings |-> embeddings[i].call],
              sorted |-> sorts_descending(candidates, order)]

\* rerank that re-scores a single candidate like any other list.
rerank_always_rescoring(candidates, query_text, top_k, provider, order) ==
    LET embeddings == rerank_embeddings(candidates, query_text, provider)
        scored == rescored(candidates, embeddings)
    IN  IF \E i \in DOMAIN embeddings : embeddings[i].raised # None
        THEN [raised |-> Some("EmbeddingProviderError"), value |-> <<>>,
              embed_calls |-> <<>>, sorted |-> TRUE]
        ELSE [raised |-> None,
              value |-> [r \in 1..Min(top_k, Len(scored)) |-> scored[order[r]]],
              embed_calls |-> [i \in DOMAIN embeddings |-> embeddings[i].call],
              sorted |-> sorts_descending(scored, order)]

\* rerank(candidates, query_text, top_k): one candidate or none is returned
\* as it is; otherwise every candidate gets its fresh score, the candidates
\* are sorted by it, descending (order is the sort's outcome: sorted says
\* whether order is one), and the first top_k are returned. A failure of
\* the provider fails the whole call.
rerank(candidates, query_text, top_k, provider, order) ==
    LET embeddings == rerank_embeddings(candidates, query_text, provider)
        scored == rescored(candidates, embeddings)
    IN  IF Len(candidates) <= 1
        THEN [raised |-> None, value |-> candidates, embed_calls |-> <<>>, sorted |-> TRUE]
        ELSE IF \E i \in DOMAIN embeddings : embeddings[i].raised # None
        THEN [raised |-> Some("EmbeddingProviderError"), value |-> <<>>,
              embed_calls |-> <<>>, sorted |-> TRUE]
        ELSE [raised |-> None,
              value |-> [r \in 1..Min(top_k, Len(scored)) |-> scored[order[r]]],
              embed_calls |-> [i \in DOMAIN embeddings |-> embeddings[i].call],
              sorted |-> sorts_descending(scored, order)]

\* rerank(candidates, query_text, top_k)
Rerank ==
    /\ ret = Idle
    /\ \E a \in RerankInputs : \E order \in Orders(Len(a.candidates)) :
        LET r == rerank(a.candidates, a.query_text, a.top_k, a.provider, order)
        IN  /\ r.sorted
            /\ ret' = [op |-> "rerank", args |-> Some(a), raised |-> r.raised,
                       value |-> Some(r.value), embed_calls |-> r.embed_calls]
    /\ UNCHANGED <<_index, _metadata, index_file, metadata_file, tieOrder, calls, torn>>

RerankNext == Rerank \/ Return

RerankSpec == Init /\ [][RerankNext]_vars

\* ---------------------------------------------------------------- properties

\* The loaded index, in the states where a call has returned.
Index == _index[1]

Searched == ret.op = "search_similar"

Args == ret.args[1]

Results == ret.value[1]

Outcome == [raised |-> ret.raised, value |-> Results]

\* search_similar again, on the present state, with the arguments a.
Rerun(a) ==
    search_similar(Index, _metadata, a.query_embedding, a.search_type, a.top_k,
                   a.threshold, a.metadata_filter, tieOrder)

\* The ranked candidates index.search hands to the loop for the arguments a.
Hits(a) ==
    IF Len(Index) = 0 \/ Len(a.query_embedding) # VECTOR_DIM THEN <<>>
    ELSE IndexSearch(Index, normalize_L2(a.query_embedding),
                     Min(a.top_k, Len(Index)), tieOrder)

\* Every key of the filter f is a key of the dict d, with an equal value.
HasAll(d, f) == \A p \in f : \E e \in d : e[1] = p[1] /\ e[2] = p[2]

Returned(id) == \E j \in 1..Len(Results) : Results[j].id = id

One == Rat(1, 1)

RECURSIVE IsSubseq(_, _)
IsSubseq(a, b) ==
    IF a = <<>> THEN TRUE
    ELSE IF b = <<>> THEN FALSE
    ELSE IF Head(a) = Head(b) THEN IsSubseq(Tail(a), Tail(b))
    ELSE IsSubseq(a, Tail(b))

\* C1: once the pair is loaded, the index holds as many vectors as the
\* metadata list holds records, and every position below the size has a record.
C1_SizesAgree ==
    _index # None =>
        /\ Len(Index) = Len(_metadata)
        /\ \A i \in 0..(Len(Index) - 1) : (i + 1) \in DOMAIN _metadata

C1_Witness ==
    /\ ret.op = "add_chunk" /\ ret.raised = None
    /\ Len(Index) = 2 /\ Len(_metadata) = 2

\* C2: the record at position i has id i, and an add that returned has
\* returned the size the index had before it, which is the id and the
\* position of the record it appended.
C2_IdIsPosition ==
    /\ \A i \in 1..Len(_metadata) : _metadata[i].id = i - 1
    /\ (ret.op = "add_chunk" /\ ret.raised = None) =>
           /\ ret.value = Some(Len(Index) - 1)
           /\ _metadata[Len(_metadata)].id = ret.value[1]

C2_Witness ==
    /\ ret.op = "add_chunk" /\ ret.value = Some(1)
    /\ _metadata[2].id = 1 /\ _metadata[1].id = 0

\* C3: a search whose search_type is none of "cosine", "l2" and
\* "inner_product" raises InvalidArgument and returns nothing.
C3_UnknownSearchTypeRejected ==
    (Searched /\ Args.search_type \notin {"cosine", "l2", "inner_product"}) =>
        /\ ret.raised = Some("InvalidArgument")
        /\ Results = <<>>

\* C4: under a non-empty filter, a candidate that passes the threshold is
\* returned exactly when its metadata has every key of the filter with an
\* equal value.
C4_FilterExact ==
    (Searched /\ ret.raised = None /\ Args.metadata_filter \notin {None, Some({})}) =>
        \A i \in 1..Len(Hits(Args)) :
            LET hit == Hits(Args)[i]
                chunk_meta == _metadata[hit.idx + 1]
            IN  passes_threshold(similarity_of(hit.dist, Args.search_type),
                                 Args.search_type, Args.threshold)
                => (Returned(chunk_meta.id)
                    <=> HasAll(chunk_meta.metadata, Args.metadata_filter[1]))

\* C5: a search with the filter {} has the outcome of the same search with no filter.
C5_EmptyFilterIsNoFilter ==
    (Searched /\ Args.metadata_filter = Some({})) =>
        Outcome = Rerun([Args EXCEPT !.metadata_filter = None])

C5_Witness ==
    /\ Searched /\ Args.metadata_filter = Some({})
    /\ Len(Results) = 2
    /\ \E j \in 1..2 : ~HasAll(_metadata[Results[j].id + 1].metadata, TopicNLP)

\* C6: under "cosine" and "inner_product" with a threshold t, every result
\* has similarity >= t, and every candidate with similarity >= t whose
\* metadata matches the filter (if there is one) is returned.
C6_ThresholdExact ==
    (/\ Searched /\ ret.raised = None
     /\ Args.search_type \in {"cosine", "inner_product"}
     /\ Args.threshold # None) =>
        /\ \A j \in 1..Len(Results) : ~RatLess(Results[j].similarity, Args.threshold[1])
        /\ \A i \in 1..Len(Hits(Args)) :
               LET hit == Hits(Args)[i]
                   chunk_meta == _metadata[hit.idx + 1]
               IN  (/\ ~RatLess(similarity_of(hit.dist, Args.search_type), Args.threshold[1])
                    /\ \/ Args.metadata_filter = None
                       \/ HasAll(chunk_meta.metadata, Args.metadata_filter[1]))
                   => Returned(chunk_meta.id)

C6_Witness ==
    /\ Searched /\ Args.search_type = "cosine" /\ Args.threshold = Some(Rat(24, 25))
    /\ Len(Hits(Args)) = 2
    /\ Len(Results) = 1 /\ Results[1].similarity = Rat(24, 25)

\* C7: under "cosine" and "inner_product", the results under a threshold t2
\* are a subsequence of (so at most as many as) the results under any
\* threshold t1 <= t2, everything else being the same.
C7_ThresholdMonotone ==
    (/\ Searched /\ ret.raised = None
     /\ Args.search_type \in {"cosine", "inner_product"}
     /\ Args.threshold # None) =>
        \A t2 \in Thresholds \ {None} :
            ~RatLess(t2[1], Args.threshold[1]) =>
                LET r2 == Rerun([Args EXCEPT !.threshold = t2]).value
                IN  Len(r2) <= Len(Results) /\ IsSubseq(r2, Results)

C7_Witness ==
    /\ Searched /\ Args.search_type = "inner_product"
    /\ Args.threshold = Some(Rat(24, 25))
    /\ Len(Results) = 2
    /\ Len(Rerun([Args EXCEPT !.threshold = Some(One)]).value) = 1

\* C8: under "l2" a search with any threshold has the outcome of the same
\* search with no threshold.
C8_L2ThresholdNoOp ==
    (Searched /\ Args.search_type = "l2" /\ Args.threshold # None) =>
        Outcome = Rerun([Args EXCEPT !.threshold = None])

C8_Witness ==
    /\ Searched /\ Args.search_type = "l2" /\ Args.threshold = Some(One)
    /\ \E j \in 1..Len(Results) : RatLess(Results[j].similarity, One)

\* C9: the results are in the order of the index search: their ids are a
\* subsequence of the ranked candidates' ordinals, the candidates' raw scores
\* do not increase, and neither do the results' similarities.
C9_ResultsInIndexOrder ==
    (Searched /\ ret.raised = None) =>
        LET hits == Hits(Args)
        IN  /\ IsSubseq([j \in 1..Len(Results) |-> Results[j].id],
                        [i \in 1..Len(hits) |-> hits[i].idx])
            /\ \A i, j \in 1..Len(hits) :
                   i < j => ~RatLess(hits[i].dist, hits[j].dist)
            /\ \A i, j \in 1..Len(Results) :
                   i < j => ~RatLess(Results[i].similarity, Results[j].similarity)

C9_Witness ==
    /\ Searched /\ Len(Results) = 2
    /\ RatLess(Results[2].similarity, Results[1].similarity)
    /\ Results[1].id = 1

\* The search of C10: "cosine", no threshold, no filter, returned normally.
SelfSearch ==
    /\ Searched /\ ret.raised = None
    /\ Args.search_type = "cosine" /\ Args.threshold = None
    /\ Args.metadata_filter = None

\* The ordinals whose stored vector is the normalised query.
SameAsQuery == {p \in 0..(Len(Index) - 1) : Index[p + 1] = normalize_L2(Args.query_embedding)}

\* C10 as claimed: every chunk stored under the embedding that is queried
\* comes back first, with similarity 1.
C10_SelfFirst ==
    SelfSearch =>
        \A p \in SameAsQuery :
            /\ Len(Results) >= 1
            /\ Results[1].id = p
            /\ Results[1].similarity = One

\* C10 as amended: for a query embedding that is not all zero and is stored
\* for some chunk, the first result has similarity 1 and is a chunk stored
\* under that same normalised embedding; it is the chunk itself when no
\* other chunk is stored under that embedding.
C10_SelfFirstAmongEqual ==
    (SelfSearch /\ \E i \in 1..VECTOR_DIM : Args.query_embedding[i] # 0) =>
        \A p \in SameAsQuery :
            /\ Len(Results) >= 1
            /\ Results[1].similarity = One
            /\ Results[1].id \in SameAsQuery
            /\ SameAsQuery = {p} => Results[1].id = p

C10_Witness ==
    /\ SelfSearch /\ Args.top_k = 1
    /\ SameAsQuery = {0, 1}
    /\ Results[1].id = 1 /\ Results[1].similarity = One

\* C11: a search on an empty index, under any of the three search types,
\* returns the empty list and raises nothing.
C11_EmptyIndexEmptyResult ==
    (/\ Searched /\ Len(Index) = 0
     /\ Args.search_type \in {"cosine", "l2", "inner_product"}) =>
        ret.raised = None /\ Results = <<>>

C11_Witness ==
    /\ Searched /\ Len(Index) = 0 /\ index_file = Some(<<>>)
    /\ Args.search_type = "l2" /\ Args.top_k = 2
    /\ Args.threshold = Some(One) /\ Args.metadata_filter = Some(TopicNLP)
    /\ Results = <<>>

\* C12: whatever the state before it, a clear raises nothing and leaves the
\* one state with an empty index, an empty list and both files present and
\* empty; a second clear leaves that state again.
C12_ClearLeavesEmptyState ==
    ret.op = "clear_all" =>
        /\ ret.raised = None
        /\ _index = Some(<<>>) /\ _metadata = <<>>
        /\ index_file = Some(<<>>) /\ metadata_file = Some(<<>>)

C12_Witness ==
    /\ ret.op = "clear_all" /\ ret.raised = None
    /\ Len(Index) = 0 /\ Len(metadata_file[1]) = 0

\* C13: when an add or a clear has returned normally, the index file holds
\* the index in memory and the metadata file the list in memory.
C13_FilesHoldMemory ==
    (ret.op \in {"add_chunk", "clear_all"} /\ ret.raised = None) =>
        index_file = _index /\ metadata_file = Some(_metadata)

C13_Witness ==
    /\ ret.op = "add_chunk" /\ ret.raised = None
    /\ index_file # None /\ Len(index_file[1]) = 2 /\ Len(metadata_file[1]) = 2
    /\ index_file = _index /\ metadata_file = Some(_metadata)

\* What the two files hold: the contents of each, nothing for an absent file.
Persisted ==
    [index |-> IF index_file = None THEN <<>> ELSE index_file[1],
     meta |-> IF metadata_file = None THEN <<>> ELSE metadata_file[1]]

\* C15: the step that discards the memory discards what the files hold, and
\* the first search or info after it has in memory what the files hold
\* (nothing when there are no files): the pair after the restart is the pair
\* before it.
C15_RestartRoundTrip ==
    [][/\ (_index # None /\ _index' = None) =>
              Index = Persisted.index /\ _metadata = Persisted.meta
       /\ (_index = None /\ ret'.op \in {"search_similar", "get_info"}) =>
              /\ _index' = Some(Persisted.index) /\ _metadata' = Persisted.meta
              /\ UNCHANGED <<index_file, metadata_file>>]_vars

\* The process has restarted over the files of two chunks.
C15_Witness ==
    /\ _index = None /\ _metadata = <<>>
    /\ index_file # None /\ Len(index_file[1]) = 2 /\ Len(metadata_file[1]) = 2

\* C20: an add of a vector of another width than the index raises (index.add
\* asserts the width), and leaves both files, the index and the list as
\* they were (as the files hold them, if the pair was not loaded yet).
C20_WrongWidthAddChangesNothing ==
    [][(ret'.op = "add_chunk" /\ Len(ret'.args[1].embedding) # VECTOR_DIM) =>
           /\ ret'.raised = Some("AssertionError") /\ ret'.value = None
           /\ UNCHANGED <<index_file, metadata_file>>
           /\ _index' = (IF _index = None THEN Some(Persisted.index) ELSE _index)
           /\ _metadata' = (IF _index = None THEN Persisted.meta ELSE _metadata)]_vars

C20_Witness ==
    /\ ret.op = "add_chunk" /\ ret.args[1].embedding = WrongWidth
    /\ ret.raised = Some("AssertionError")
    /\ Len(Index) = 1 /\ Len(_metadata) = 1 /\ Len(index_file[1]) = 1

\* C19: add_document_chunk asks the provider once, for the content in
\* document mode; when the provider fails, that error is what the call
\* raises, and index, list and both files are what they were.
C19_EmbedFailureChangesNothing ==
    [][ret'.op = "add_document_chunk" =>
           /\ ret'.embed_calls = <<[text |-> ret'.args[1].content,
                                    task_type |-> "RETRIEVAL_DOCUMENT"]>>
           /\ ret'.raised = Some("EmbeddingProviderError") =>
                  /\ ret'.value = None
                  /\ UNCHANGED <<_index, _metadata, index_file, metadata_file>>]_vars

C19_Witness ==
    /\ ret.op = "add_document_chunk" /\ ret.raised = Some("EmbeddingProviderError")
    /\ _index # None /\ Len(Index) = 1 /\ Len(_metadata) = 1
    /\ index_file = _index /\ metadata_file = Some(_metadata)

\* ---------------------------------------------------------------- stops and threads

\* The call thread t has returned from, in the states where it has.
Done(t, op) == calls[t].op = op /\ calls[t].pc = "done"

\* A new process that has loaded nothing yet.
JustStarted == _index = None /\ \A t \in Threads : calls[t].pc = "idle"

\* C14: whatever line the process stopped at, the files a new process finds
\* (both whole) hold at most as many vectors as records.
C14_IndexFileNeverAhead ==
    (JustStarted /\ torn = {}) => Len(Persisted.index) <= Len(Persisted.meta)

\* Only one of the two files is there to read.
OneFileMissing ==
    (index_file = None \/ "index" \in torn) # (metadata_file = None \/ "metadata" \in torn)

\* C16: when the process started on files of which only one can be read, a
\* search or info call made afterwards raises.
C16_LoadFailureRefusesService ==
    (OneFileMissing /\ (Done(1, "search_similar") \/ Done(1, "get_info"))) =>
        calls[1].raised # None

\* C17: two add calls that returned and whose vectors went into the index
\* the process holds now returned different ids, and once no add or clear
\* is under way every record's id is its position in the list.
C17_ConcurrentAddsDistinctIds ==
    /\ \A t, u \in Threads :
           (/\ t # u /\ Done(t, "add_chunk") /\ Done(u, "add_chunk")
            /\ calls[t].index.shared /\ calls[u].index.shared) =>
               calls[t].value # calls[u].value
    /\ (\A t \in Threads : calls[t].pc \in {"idle", "done"}) =>
           \A i \in 1..Len(_metadata) : _metadata[i].id = i - 1

\* C18: no search, whatever add or clear runs beside it, ends on an ordinal
\* that has no record in the list.
C18_SearchFindsEveryRecord ==
    \A t \in Threads : Done(t, "search_similar") => calls[t].raised # Some("IndexError")

\* ---------------------------------------------------------------- search, continued

\* C21: a search whose query has another length than the index's width
\* raises, whatever the index holds, and returns nothing.
C21_WrongWidthQueryRejected ==
    (Searched /\ Len(Args.query_embedding) # VECTOR_DIM) =>
        ret.raised # None /\ Results = <<>>

\* What the store holds: the loaded pair, or the files before the first load.
Stored == IF _index = None THEN Persisted ELSE [index |-> Index, meta |-> _metadata]

\* a is the beginning of b.
IsPrefix(a, b) == Len(a) <= Len(b) /\ \A i \in 1..Len(a) : a[i] = b[i]

\* C22: every step but a clear_all keeps each stored vector and each record
\* as it was, at its position; an add that returns an id adds one vector and
\* one record behind them; clear_all leaves nothing.
C22_AppendOnly ==
    [][/\ ret'.op # "clear_all" =>
              /\ IsPrefix(Stored.index, Stored'.index)
              /\ IsPrefix(Stored.meta, Stored'.meta)
       /\ (ret'.op = "add_chunk" /\ ret'.raised = None) =>
              /\ Len(Stored'.index) = Len(Stored.index) + 1
              /\ Len(Stored'.meta) = Len(Stored.meta) + 1
       /\ ret'.op = "clear_all" => Stored'.index = <<>> /\ Stored'.meta = <<>>]_vars

C22_Witness ==
    /\ ret.op = "add_chunk" /\ ret.raised = None /\ ret.args[1].content = "beta"
    /\ Len(Index) = 2 /\ Len(_metadata) = 2
    /\ _metadata[1].content = "alpha" /\ _metadata[1].metadata = TopicNLP
    /\ Index[1] = normalize_L2(Pad(<<4, 3>>))

\* The raw score of result c: the inner product of the normalised query and
\* the vector stored under c's id.
RawScore(c) == InnerProduct(normalize_L2(Args.query_embedding), Index[c.id + 1])

\* x = 1 / (1 + (2 - 2 * s)), by cross-multiplication.
IsL2Similarity(x, s) == x.num * (3 * s.den - 2 * s.num) = x.den * s.den

\* C23: each result's similarity is its raw score under "cosine" and
\* "inner_product", and 1 / (1 + (2 - 2 * raw score)) under "l2".
C23_SimilarityOfRawScore ==
    (/\ Searched /\ ret.raised = None
     /\ Args.search_type \in {"cosine", "l2", "inner_product"}) =>
        \A j \in 1..Len(Results) :
            IF Args.search_type = "l2"
            THEN IsL2Similarity(Results[j].similarity, RawScore(Results[j]))
            ELSE Results[j].similarity = RawScore(Results[j])

C23_Witness ==
    /\ Searched /\ ret.raised = None /\ Args.search_type = "l2"
    /\ Len(Results) = 2
    /\ \E j \in 1..2 : /\ RawScore(Results[j]) = Rat(24, 25)
                       /\ Results[j].similarity = Rat(25, 27)
    /\ \E j \in 1..2 : RawScore(Results[j]) = One /\ Results[j].similarity = One

\* The ids of the results, in their order.
ResultIds == [j \in 1..Len(Results) |-> Results[j].id]

\* No value occurs twice in the sequence s.
Distinct(s) == \A i, j \in 1..Len(s) : s[i] = s[j] => i = j

\* C24: a search without threshold and filter returns as many results as
\* top_k times the overfetch factor, or as the index holds if that is fewer,
\* no chunk twice; when the index holds no more than was asked for, every
\* chunk in it is returned.
C24_OverfetchedCount ==
    (/\ Searched /\ ret.raised = None
     /\ Args.threshold = None /\ Args.metadata_filter = None) =>
        /\ Len(Results) = Min(Args.top_k * Args.overfetch_factor, Len(Index))
        /\ Distinct(ResultIds)
        /\ Args.top_k * Args.overfetch_factor >= Len(Index) =>
               \A i \in 0..(Len(Index) - 1) : Returned(i)

\* ---------------------------------------------------------------- reranking, properties

Reranked == ret.op = "rerank"

\* The fresh score of candidate c in the rerank that returned: the inner
\* product of the normalised fresh embeddings of the query and of c's content.
FreshScore(c) ==
    InnerProduct(normalize_L2(Args.provider[Args.query_text][1]),
                 normalize_L2(Args.provider[c.content][1]))

\* The candidate that result r was made from: r with c's coarse score.
CameFrom(r, c) == r = [c EXCEPT !.similarity = FreshScore(c)]

\* C25: a rerank of two or more candidates returns min(top_k, candidates)
\* of them, none twice, each with its fresh score for similarity, in
\* non-increasing order of fresh score, and no candidate left out has a
\* higher fresh score than one returned.
C25_RerankSortsByFreshScore ==
    (Reranked /\ ret.raised = None /\ Len(Args.candidates) >= 2) =>
        LET cands == Args.candidates
            left == {i \in DOMAIN cands : \A j \in DOMAIN Results : ~CameFrom(Results[j], cands[i])}
        IN  /\ Len(Results) = Min(Args.top_k, Len(cands))
            /\ Distinct(Results)
            /\ \A j \in DOMAIN Results : \E i \in DOMAIN cands : CameFrom(Results[j], cands[i])
            /\ \A j \in 1..(Len(Results) - 1) :
                   ~RatLess(Results[j].similarity, Results[j + 1].similarity)
            /\ \A i \in left : \A j \in DOMAIN Results :
                   ~RatLess(Results[j].similarity, FreshScore(cands[i]))

\* Coarse order A > B > C, fresh order C > A > B: the rerank returns C, A, B.
C25_Witness ==
    /\ Reranked /\ ret.raised = None /\ Args.top_k = 3
    /\ Args.candidates = <<CandidateA, CandidateB, CandidateC>>
    /\ RatLess(FreshScore(CandidateA), FreshScore(CandidateC))
    /\ RatLess(FreshScore(CandidateB), FreshScore(CandidateA))
    /\ Results = <<[CandidateC EXCEPT !.similarity = One],
                   [CandidateA EXCEPT !.similarity = Rat(24, 25)],
                   [CandidateB EXCEPT !.similarity = Rat(4, 5)]>>

\* C26: a rerank of one candidate returns it as it came, coarse score
\* included, and calls the provider for nothing.
C26_SingleCandidateUnchanged ==
    (Reranked /\ Len(Args.candidates) = 1) =>
        /\ ret.raised = None
        /\ Results = Args.candidates
        /\ ret.embed_calls = <<>>

\* One candidate whose fresh score would differ from its coarse one.
C26_Witness ==
    /\ Reranked /\ Args.candidates = <<CandidateB>> /\ Args.top_k = 3
    /\ Args.provider.B # None /\ FreshScore(CandidateB) # CandidateB.similarity
    /\ Results = <<CandidateB>>

\* ---------------------------------------------------------------- add_chunk, continued

\* The squared L2 norm of the normalised vector v is 1.
HasNormOne(v) == Dot(v.num, v.num) = v.den * v.den

\* C27: every vector in the index has L2 norm 1.
C27_StoredVectorsHaveNormOne ==
    _index # None => \A i \in 1..Len(Index) : HasNormOne(Index[i])

\* C28: when an add has raised at one of its writes, index and list hold
\* what they held before the call (as many entries as the id the add was
\* about to give), so neither info nor a search knows the chunk, and the
\* files, where both can be read, hold equally many entries.
C28_FailedWriteLeavesNoChunk ==
    (Done(1, "add_chunk") /\ calls[1].raised \in {Some("RuntimeError"), Some("OSError")}) =>
        /\ Len(Index) = calls[1].chunk_id
        /\ Len(_metadata) = calls[1].chunk_id
        /\ get_info(Index).total_chunks = calls[1].chunk_id
        /\ torn = {} => Len(Persisted.index) = Len(Persisted.meta)

\* C29: once an add and a clear_all of two threads have both returned, the
\* files hold what index and list hold, and these hold equally many entries
\* (the number get_info reports).
C29_AddAndClearAgreeOnDisk ==
    \A t, u \in Threads :
        (Done(t, "add_chunk") /\ Done(u, "clear_all")) =>
            /\ index_file = _index
            /\ metadata_file = Some(_metadata)
            /\ get_info(Index).total_chunks = Len(_metadata)

\* The stored chunks that score higher against the query than result c.
ScoringAbove(c) ==
    {p \in 1..Len(Index) :
        RatLess(RawScore(c), InnerProduct(normalize_L2(Args.query_embedding), Index[p]))}

\* C30: every chunk a search returns is one of the top_k best by raw score:
\* fewer than top_k stored chunks score higher than it, whatever the
\* threshold and the filter let through.
C30_OnlyTopKAreFiltered ==
    (Searched /\ ret.raised = None) =>
        /\ Len(Results) <= Min(Args.top_k, Len(Index))
        /\ \A j \in 1..Len(Results) : Cardinality(ScoringAbove(Results[j])) < Args.top_k

\* A chunk that matches the filter ranks second, top_k is 1 and the first
\* does not match: nothing is returned.
C30_Witness ==
    /\ Searched /\ ret.raised = None /\ Args.top_k = 1
    /\ Args.metadata_filter = Some(TopicNLP) /\ Args.threshold = None
    /\ Len(Index) = 2 /\ Results = <<>>
    /\ \E p \in 1..2 : /\ HasAll(_metadata[p].metadata, TopicNLP)
                       /\ InnerProduct(normalize_L2(Args.query_embedding), Index[p])
                              = Rat(24, 25)

====
